---- MODULE Spec2Model ----
\* Gyst: a minimal content-addressable version-control store.
\* The repository ships two entry points that operate on the same on-disk
\* layout (.gyst/objects, .gyst/HEAD, .gyst/index):
\*   "Gyst.js"   src/Gyst.js            (commander based CLI)
\*   "part_000"  src/unnamed/part_000   (switch based CLI)
\* Every file-system call that the code awaits is one atomic step of the model.
EXTENDS Naturals, Sequences, FiniteSets, TLC

\* ---------------------------------------------------------------- bounds
MaxCommits == 2        \* commits started in one behaviour
MaxAdds == 3           \* files read by add in one behaviour
MaxPurges == 1         \* object files removed by the environment
MaxRace == 1           \* adds (commits) made when a concurrent add (commit) starts

Impls == {"Gyst.js", "part_000"}
Procs == {1, 2}        \* CLI invocations that may be alive at once
Paths == {"a.txt", "b.txt"}
Contents == {"hello", "hello world"}
Messages == {"first"}

\* ---------------------------------------------------------------- values
Null == "<null>"       \* the JavaScript value null
ENOENT == "<ENOENT>"   \* a file that does not exist
Bogus == "0000"        \* a digest no object was ever stored under

\* JavaScript truthiness of a string-or-null value
Truthy(v) == v # Null /\ v # ""

\* head.trim(): every value the program writes to HEAD is "" or a hex digest,
\* neither of which carries whitespace
Trim(s) == s

\* file contents: raw text, or JSON text in one of the two layouts
Raw(t) == [fmt |-> "raw", json |-> <<>>, text |-> t]
Stringify(v) == [fmt |-> "compact", json |-> v, text |-> ""]
StringifyPretty(v) == [fmt |-> "pretty", json |-> v, text |-> ""]
NoFile == [fmt |-> ENOENT, json |-> <<>>, text |-> ""]
IsJSON(b) == b.fmt \in {"compact", "pretty"}
JSONparse(b) == b.json

RECURSIVE SerFiles(_)
SerFiles(fs) ==
    IF fs = <<>> THEN ""
    ELSE "{path:" \o Head(fs).path \o ",hash:" \o Head(fs).hash \o "}"
         \o SerFiles(Tail(fs))

SerCommit(c) ==
    "timeStamp:" \o ToString(c.timeStamp) \o ",message:" \o c.message
    \o ",files:[" \o SerFiles(c.files) \o "],parent:" \o c.parent

\* the characters of a file content
Text(b) ==
    CASE b.fmt = "raw" -> b.text
      [] b.fmt = "compact" -> "{" \o SerCommit(b.json) \o "}"
      [] b.fmt = "pretty" -> "{ " \o SerCommit(b.json) \o " }"

\* sha1 as an injective function of the characters hashed
hashObject(b) == "sha1(" \o Text(b) \o ")"

NoCommit == [timeStamp |-> 0, message |-> "", files |-> <<>>, parent |-> Null]

\* fs.writeFile(path.join(objectsPath, h), bytes)
Put(objs, h, b) == [d \in DOMAIN objs \cup {h} |-> IF d = h THEN b ELSE objs[d]]

\* ---------------------------------------------------------------- state
VARIABLES
    impl,      \* which entry point operates the repository
    repo,      \* .gyst/objects exists
    HEAD,      \* content of .gyst/HEAD, ENOENT when the file is missing
    index,     \* content of .gyst/index, NoFile when the file is missing
    objects,   \* digest -> content of .gyst/objects/<digest>
    clock,     \* new Date()
    proc,      \* the CLI invocations
    pre,       \* history: the repository as each invocation found it
    made,      \* history: digests written to HEAD, oldest first
    nAdds,     \* history: files read by add so far
    nPurged    \* history: object files removed by the environment

vars == <<impl, repo, HEAD, index, objects, clock, proc, pre, made, nAdds, nPurged>>
disk == <<repo, HEAD, index, objects>>

IdleProc ==
    [cmd |-> "idle", arg |-> "", pc |-> "idle", pcI |-> "done",
     status |-> "idle", err |-> "",
     fileData |-> "", fileHash |-> "", idx |-> <<>>,
     commitData |-> NoCommit, commitHash |-> "", parentData |-> NoCommit,
     current |-> Null, i |-> 0, out |-> <<>>]

Snapshot == [repo |-> repo, HEAD |-> HEAD, index |-> index, objects |-> objects]

Init ==
    /\ impl \in Impls
    /\ repo = FALSE
    /\ HEAD = ENOENT
    /\ index = NoFile
    /\ objects = [d \in {} |-> NoFile]
    /\ clock = 1
    /\ proc = [p \in Procs |-> IdleProc]
    /\ pre = [p \in Procs |-> Snapshot]
    /\ made = <<>>
    /\ nAdds = 0
    /\ nPurged = 0

\* ---------------------------------------------------------------- helpers
Running(p) == proc[p].status = "running"
At(p, c, l) == Running(p) /\ proc[p].cmd = c /\ proc[p].pc = l

Set(p, r) == proc' = [proc EXCEPT ![p] = r]
Say(p, line) == Append(proc[p].out, line)
Line(tag, key, text, old) == [tag |-> tag, key |-> key, text |-> text, old |-> old]

\* an awaited call rejects and nothing catches it
Throw(p, e) == Set(p, [proc[p] EXCEPT !.status = "threw", !.err = e])
\* console.error(...); process.exit(1)
Exit1(p, e) == Set(p, [proc[p] EXCEPT !.status = "exit1", !.err = e])

\* the first label of a command after the constructor has returned
FirstLabel(c) ==
    CASE c = "init" -> "awaitInit"
      [] c = "add" -> IF impl = "part_000" THEN "awaitInit" ELSE "readFile"
      [] c = "commit" -> IF impl = "part_000" THEN "awaitInit" ELSE "readIndex"
      [] c = "log" -> IF impl = "part_000" THEN "access" ELSE "readHEAD"
      [] c = "diff" -> IF impl = "part_000" THEN "access" ELSE "readCommit"

\* Gyst.js: the constructor calls this.init() without awaiting it.
\* part_000: init, add and commit await this.init() as their first statement;
\* log and diff never call it.
StartsInit(c) == impl = "Gyst.js" \/ c \in {"init", "add", "commit"}

Args(c) ==
    CASE c = "init" -> {""}
      [] c = "add" -> Paths
      [] c = "commit" -> Messages
      [] c = "log" -> {""}
      [] c = "diff" -> DOMAIN objects \cup {Bogus}

\* the commands of the CLI
Commands == {"init", "add", "commit", "log", "diff"}

\* a CLI invocation of one of the commands cmds: process start, new Gyst(),
\* dispatch to the command
StartOf(p, cmds) ==
    /\ proc[p].cmd = "idle"
    /\ \E c \in cmds : \E a \in Args(c) :
        /\ c = "commit" => clock <= MaxCommits
        /\ c = "add" => nAdds < MaxAdds
        /\ Set(p, [IdleProc EXCEPT !.cmd = c, !.arg = a, !.status = "running",
                                   !.pc = FirstLabel(c),
                                   !.pcI = IF StartsInit(c) THEN "mkdir" ELSE "done"])
    /\ pre' = [pre EXCEPT ![p] = Snapshot]
    /\ UNCHANGED <<impl, disk, clock, made, nAdds, nPurged>>

Start(p) == StartOf(p, Commands)

\* the process ends: the command returned and no I/O is pending, or
\* process.exit(1) was called, or a rejection went unhandled
Exit(p) ==
    /\ \/ proc[p].status \in {"exit1", "threw"}
       \/ proc[p].status = "ok" /\ proc[p].pcI = "done"
    /\ Set(p, IdleProc)
    /\ pre' = [pre EXCEPT ![p] = Snapshot]
    /\ UNCHANGED <<impl, disk, clock, made, nAdds, nPurged>>

\* ---------------------------------------------------------------- init()
InitAlive(p) == proc[p].status \in {"running", "ok", "threw"}

\* await fs.mkdir(this.objectsPath, { recursive: true })
InitMkdir(p) ==
    /\ InitAlive(p) /\ proc[p].pcI = "mkdir"
    /\ repo' = TRUE
    /\ Set(p, [proc[p] EXCEPT !.pcI = "writeHEAD"])
    /\ UNCHANGED <<impl, HEAD, index, objects, clock, pre, made, nAdds, nPurged>>

\* (an init that opens HEAD with flag "w" instead of "wx")
InitTruncatesHead(p) ==
    /\ InitAlive(p) /\ proc[p].pcI = "writeHEAD"
    /\ HEAD' = ""
    /\ Set(p, [proc[p] EXCEPT !.pcI = "writeIndex"])
    /\ UNCHANGED <<impl, repo, index, objects, clock, pre, made, nAdds, nPurged>>

\* await fs.writeFile(this.headPath, "", { flag: "wx" }) inside try
InitWriteHead(p) ==
    /\ InitAlive(p) /\ proc[p].pcI = "writeHEAD"
    /\ IF HEAD # ENOENT \/ ~repo
       THEN /\ Set(p, [proc[p] EXCEPT !.pcI = "done"])
            /\ UNCHANGED HEAD
       ELSE /\ HEAD' = ""
            /\ Set(p, [proc[p] EXCEPT !.pcI = "writeIndex"])
    /\ UNCHANGED <<impl, repo, index, objects, clock, pre, made, nAdds, nPurged>>

\* await fs.writeFile(this.indexPath, JSON.stringify([]), { flag: "wx" })
InitWriteIndex(p) ==
    /\ InitAlive(p) /\ proc[p].pcI = "writeIndex"
    /\ IF index # NoFile \/ ~repo
       THEN /\ Set(p, [proc[p] EXCEPT !.pcI = "done"])
            /\ UNCHANGED index
       ELSE /\ index' = Stringify(<<>>)
            /\ Set(p, [proc[p] EXCEPT !.pcI = "done",
                         !.out = Say(p, Line("Initialized", "", "", ""))])
    /\ UNCHANGED <<impl, repo, HEAD, objects, clock, pre, made, nAdds, nPurged>>

\* await this.init() resumes (part_000); the init command returns
AwaitInit(p) ==
    /\ Running(p) /\ proc[p].pc = "awaitInit" /\ proc[p].pcI = "done"
    /\ Set(p, CASE proc[p].cmd = "init" -> [proc[p] EXCEPT !.status = "ok", !.pc = "done"]
                [] proc[p].cmd = "add" -> [proc[p] EXCEPT !.pc = "readFile"]
                [] proc[p].cmd = "commit" -> [proc[p] EXCEPT !.pc = "readIndex"])
    /\ UNCHANGED <<impl, disk, clock, pre, made, nAdds, nPurged>>

\* ---------------------------------------------------------------- add
\* fileData = await fs.readFile(fileToBeAdded); fileHash = hashObject(fileData)
AddReadFile(p) ==
    /\ At(p, "add", "readFile")
    /\ \E d \in Contents \cup {ENOENT} :
        IF d = ENOENT
        THEN IF impl = "part_000" THEN Exit1(p, "FileUnreadable") ELSE Throw(p, "ENOENT")
        ELSE Set(p, [proc[p] EXCEPT !.fileData = d, !.fileHash = hashObject(Raw(d)),
                                    !.pc = "writeObject"])
    /\ nAdds' = IF Running(p)' THEN nAdds + 1 ELSE nAdds
    /\ UNCHANGED <<impl, disk, clock, pre, made, nPurged>>

\* the same readFile where the file added holds the text
\* JSON.stringify(commitData) of a stored commit
AddReadCommitText(p) ==
    /\ At(p, "add", "readFile")
    /\ \E d \in DOMAIN objects :
        /\ IsJSON(objects[d])
        /\ LET bytes == Stringify(JSONparse(objects[d])) IN
            Set(p, [proc[p] EXCEPT !.fileData = Text(bytes),
                                   !.fileHash = hashObject(Raw(Text(bytes))),
                                   !.pc = "writeObject"])
    /\ nAdds' = nAdds + 1
    /\ UNCHANGED <<impl, disk, clock, pre, made, nPurged>>

\* await fs.writeFile(path.join(this.objectsPath, fileHash), fileData)
AddWriteObject(p) ==
    /\ At(p, "add", "writeObject")
    /\ IF ~repo
       THEN Throw(p, "ENOENT") /\ UNCHANGED objects
       ELSE /\ objects' = Put(objects, proc[p].fileHash, Raw(proc[p].fileData))
            /\ Set(p, [proc[p] EXCEPT !.pc = "readIndex"])
    /\ UNCHANGED <<impl, repo, HEAD, index, clock, pre, made, nAdds, nPurged>>

\* updateStagingArea: index = JSON.parse(await fs.readFile(this.indexPath))
AddReadIndex(p) ==
    /\ At(p, "add", "readIndex")
    /\ IF index = NoFile
       THEN IF impl = "part_000"
            THEN Set(p, [proc[p] EXCEPT !.idx = <<>>, !.pc = "writeIndex"])
            ELSE Throw(p, "ENOENT")
       ELSE Set(p, [proc[p] EXCEPT !.idx = JSONparse(index), !.pc = "writeIndex"])
    /\ UNCHANGED <<impl, disk, clock, pre, made, nAdds, nPurged>>

\* index.filter((entry) => entry.path !== filePath)
FilterPath(ix, path) == SelectSeq(ix, LAMBDA e : e.path # path)

\* (an updateStagingArea that writes the new entry alone)
StagedAlone(ix, path, hash) == <<[path |-> path, hash |-> hash]>>

\* the list updateStagingArea writes back
Staged(ix, path, hash) ==
    IF impl = "part_000"
    THEN Append(FilterPath(ix, path), [path |-> path, hash |-> hash])
    ELSE Append(ix, [path |-> path, hash |-> hash])

\* await fs.writeFile(this.indexPath, JSON.stringify(index)); "Added file"
AddWriteIndex(p) ==
    /\ At(p, "add", "writeIndex")
    /\ LET new == Staged(proc[p].idx, proc[p].arg, proc[p].fileHash) IN
        index' = IF impl = "part_000" THEN StringifyPretty(new) ELSE Stringify(new)
    /\ Set(p, [proc[p] EXCEPT !.status = "ok", !.pc = "done",
                 !.out = Say(p, Line("Added", proc[p].arg, "", ""))])
    /\ UNCHANGED <<impl, repo, HEAD, objects, clock, pre, made, nAdds, nPurged>>

\* ---------------------------------------------------------------- commit
\* index = JSON.parse(await fs.readFile(this.indexPath)); the emptiness guard
CommitReadIndex(p) ==
    /\ At(p, "commit", "readIndex")
    /\ IF impl = "part_000"
       THEN LET ix == IF index = NoFile THEN <<>> ELSE JSONparse(index) IN
            IF Len(ix) = 0
            THEN Exit1(p, "NoStagedChanges")
            ELSE Set(p, [proc[p] EXCEPT !.idx = ix, !.pc = "readHEAD"])
       ELSE IF index = NoFile
            THEN Throw(p, "ENOENT")
            ELSE Set(p, [proc[p] EXCEPT !.idx = JSONparse(index), !.pc = "readHEAD"])
    /\ UNCHANGED <<impl, disk, clock, pre, made, nAdds, nPurged>>

getCurrentHead ==
    IF HEAD = ENOENT THEN Null
    ELSE IF impl = "part_000"
         THEN (IF Trim(HEAD) = "" THEN Null ELSE Trim(HEAD))
         ELSE HEAD

\* (a commit that records no files)
CommitReadHeadNoFiles(p) ==
    /\ At(p, "commit", "readHEAD")
    /\ LET commitData == [timeStamp |-> clock, message |-> proc[p].arg,
                          files |-> <<>>, parent |-> getCurrentHead]
       IN  Set(p, [proc[p] EXCEPT !.commitData = commitData,
                                  !.commitHash = hashObject(Stringify(commitData)),
                                  !.pc = "writeObject"])
    /\ clock' = clock + 1
    /\ UNCHANGED <<impl, disk, pre, made, nAdds, nPurged>>

\* parentCommit = await this.getCurrentHead(); commitData; commitHash
CommitReadHead(p) ==
    /\ At(p, "commit", "readHEAD")
    /\ LET parentCommit ==
               IF impl = "part_000"
               THEN (IF Truthy(getCurrentHead) THEN getCurrentHead ELSE Null)
               ELSE getCurrentHead
           commitData == [timeStamp |-> clock, message |-> proc[p].arg,
                          files |-> proc[p].idx, parent |-> parentCommit]
       IN  Set(p, [proc[p] EXCEPT !.commitData = commitData,
                                  !.commitHash = hashObject(Stringify(commitData)),
                                  !.pc = "writeObject"])
    /\ clock' = clock + 1
    /\ UNCHANGED <<impl, disk, pre, made, nAdds, nPurged>>

\* (a commit that advances HEAD without storing the commit object)
CommitSkipsObject(p) ==
    /\ At(p, "commit", "writeObject")
    /\ Set(p, [proc[p] EXCEPT !.pc = "writeHEAD"])
    /\ UNCHANGED <<impl, disk, clock, pre, made, nAdds, nPurged>>

\* await fs.writeFile(commitPath, JSON.stringify(commitData))
CommitWriteObject(p) ==
    /\ At(p, "commit", "writeObject")
    /\ objects' = Put(objects, proc[p].commitHash,
                      IF impl = "part_000" THEN StringifyPretty(proc[p].commitData)
                      ELSE Stringify(proc[p].commitData))
    /\ Set(p, [proc[p] EXCEPT !.pc = "writeHEAD"])
    /\ UNCHANGED <<impl, repo, HEAD, index, clock, pre, made, nAdds, nPurged>>

\* (a commit that leaves HEAD alone when HEAD is no longer the parent it read)
CommitWriteHeadIfParent(p) ==
    /\ At(p, "commit", "writeHEAD")
    /\ HEAD' = IF getCurrentHead = proc[p].commitData.parent
               THEN proc[p].commitHash ELSE HEAD
    /\ made' = Append(made, proc[p].commitHash)
    /\ Set(p, [proc[p] EXCEPT !.pc = "writeIndex"])
    /\ UNCHANGED <<impl, repo, index, objects, clock, pre, nAdds, nPurged>>

\* await fs.writeFile(this.headPath, commitHash)
CommitWriteHead(p) ==
    /\ At(p, "commit", "writeHEAD")
    /\ HEAD' = proc[p].commitHash
    /\ made' = Append(made, proc[p].commitHash)
    /\ Set(p, [proc[p] EXCEPT !.pc = "writeIndex"])
    /\ UNCHANGED <<impl, repo, index, objects, clock, pre, nAdds, nPurged>>

\* (a commit that forgets to clear the staging area)
CommitKeepsIndex(p) ==
    /\ At(p, "commit", "writeIndex")
    /\ Set(p, [proc[p] EXCEPT !.status = "ok", !.pc = "done",
                 !.out = Say(p, Line("Committed", proc[p].commitHash, "", ""))])
    /\ UNCHANGED <<impl, disk, clock, pre, made, nAdds, nPurged>>

\* await fs.writeFile(this.indexPath, JSON.stringify([])); "Commit successfully created"
CommitWriteIndex(p) ==
    /\ At(p, "commit", "writeIndex")
    /\ index' = IF impl = "part_000" THEN StringifyPretty(<<>>) ELSE Stringify(<<>>)
    /\ Set(p, [proc[p] EXCEPT !.status = "ok", !.pc = "done",
                 !.out = Say(p, Line("Committed", proc[p].commitHash, "", ""))])
    /\ UNCHANGED <<impl, repo, HEAD, objects, clock, pre, made, nAdds, nPurged>>

\* ---------------------------------------------------------------- log
\* (a log that does not test for the repository)
LogAccessSkipped(p) ==
    /\ At(p, "log", "access")
    /\ Set(p, [proc[p] EXCEPT !.pc = "readHEAD"])
    /\ UNCHANGED <<impl, disk, clock, pre, made, nAdds, nPurged>>

\* try { await fs.access(this.headPath) } catch { process.exit(1) }  (part_000)
LogAccess(p) ==
    /\ At(p, "log", "access")
    /\ IF HEAD = ENOENT
       THEN Exit1(p, "RepoNotInitialized")
       ELSE Set(p, [proc[p] EXCEPT !.pc = "readHEAD"])
    /\ UNCHANGED <<impl, disk, clock, pre, made, nAdds, nPurged>>

\* current = await this.getCurrentHead(); the test before the first iteration
LogReadHead(p) ==
    /\ At(p, "log", "readHEAD")
    /\ IF Truthy(getCurrentHead)
       THEN Set(p, [proc[p] EXCEPT !.current = getCurrentHead, !.pc = "walk"])
       ELSE Set(p, [proc[p] EXCEPT !.current = getCurrentHead, !.status = "ok",
                      !.pc = "done",
                      !.out = IF impl = "part_000"
                              THEN Say(p, Line("NoCommitsYet", "", "", ""))
                              ELSE proc[p].out])
    /\ UNCHANGED <<impl, disk, clock, pre, made, nAdds, nPurged>>

\* (a walk that does not follow the parent pointer)
LogWalkOnce(p) ==
    /\ At(p, "log", "walk")
    /\ proc[p].current \in DOMAIN objects
    /\ Set(p, [proc[p] EXCEPT
                 !.out = Say(p, Line("Commit", proc[p].current,
                                     JSONparse(objects[proc[p].current]).message, "")),
                 !.current = Null, !.status = "ok", !.pc = "done"])
    /\ UNCHANGED <<impl, disk, clock, pre, made, nAdds, nPurged>>

\* one iteration of while (current): read, parse, print, current = parent
LogWalk(p) ==
    /\ At(p, "log", "walk")
    /\ LET cur == proc[p].current IN
       IF cur \notin DOMAIN objects
       THEN Throw(p, "ENOENT")
       ELSE IF ~IsJSON(objects[cur])
       THEN Throw(p, "SyntaxError")
       ELSE LET commitData == JSONparse(objects[cur]) IN
            Set(p, [proc[p] EXCEPT
                      !.out = Say(p, Line("Commit", cur, commitData.message, "")),
                      !.current = commitData.parent,
                      !.status = IF Truthy(commitData.parent) THEN "running" ELSE "ok",
                      !.pc = IF Truthy(commitData.parent) THEN "walk" ELSE "done"])
    /\ UNCHANGED <<impl, disk, clock, pre, made, nAdds, nPurged>>

\* ---------------------------------------------------------------- diff / show
\* try { await fs.access(this.headPath) } catch { process.exit(1) }  (part_000)
DiffAccess(p) ==
    /\ At(p, "diff", "access")
    /\ IF HEAD = ENOENT
       THEN Exit1(p, "RepoNotInitialized")
       ELSE Set(p, [proc[p] EXCEPT !.pc = "readCommit"])
    /\ UNCHANGED <<impl, disk, clock, pre, made, nAdds, nPurged>>

\* the for loop moves to the next file, or the command returns
NextFile(r) ==
    IF r.i < Len(r.commitData.files)
    THEN [r EXCEPT !.i = r.i + 1, !.pc = "file"]
    ELSE [r EXCEPT !.status = "ok", !.pc = "done"]

\* getCommitRaw / getCommitData of the requested commit, JSON.parse, the
\* not-found test, the header line
DiffReadCommit(p) ==
    /\ At(p, "diff", "readCommit")
    /\ LET h == proc[p].arg IN
       IF h \notin DOMAIN objects
       THEN IF impl = "part_000"
            THEN Exit1(p, "CommitNotFound")
            ELSE Set(p, [proc[p] EXCEPT !.status = "ok", !.pc = "done",
                           !.out = Say(p, Line("NotFound", h, "", ""))])
       ELSE IF ~IsJSON(objects[h])
       THEN Throw(p, "SyntaxError")
       ELSE Set(p, NextFile([proc[p] EXCEPT
                               !.commitData = JSONparse(objects[h]), !.i = 0,
                               !.out = Say(p, Line("Changes", h, "", ""))]))
    /\ UNCHANGED <<impl, disk, clock, pre, made, nAdds, nPurged>>

\* getFileContent: part_000 catches the failed read and returns "",
\* Gyst.js lets the rejection through (Null stands for the rejection)
getFileContent(h) ==
    IF h \in DOMAIN objects THEN Text(objects[h])
    ELSE IF impl = "part_000" THEN "" ELSE Null

\* (a diff that looks for the parent without testing commitData.parent)
DiffFileAlwaysParent(p) ==
    /\ At(p, "diff", "file")
    /\ LET file == proc[p].commitData.files[proc[p].i]
           fileContent == getFileContent(file.hash)
       IN  IF fileContent = Null
           THEN Throw(p, "ENOENT")
           ELSE Set(p, [proc[p] EXCEPT !.fileData = fileContent, !.pc = "readParent",
                          !.out = Say(p, Line("File", file.path, fileContent, ""))])
    /\ UNCHANGED <<impl, disk, clock, pre, made, nAdds, nPurged>>

\* "File: path", fileContent = await getFileContent(file.hash), and the
\* branch on commitData.parent
DiffFile(p) ==
    /\ At(p, "diff", "file")
    /\ LET file == proc[p].commitData.files[proc[p].i]
           fileContent == getFileContent(file.hash)
       IN  IF fileContent = Null
           THEN Throw(p, "ENOENT")
           ELSE LET r == [proc[p] EXCEPT !.fileData = fileContent,
                            !.out = Say(p, Line("File", file.path, fileContent, ""))]
                IN  IF Truthy(proc[p].commitData.parent)
                    THEN Set(p, [r EXCEPT !.pc = "readParent"])
                    ELSE Set(p, NextFile([r EXCEPT !.out =
                             Append(r.out, Line("FirstCommit", file.path, "", ""))]))
    /\ UNCHANGED <<impl, disk, clock, pre, made, nAdds, nPurged>>

\* rawParent = await getCommitRaw(commitData.parent); JSON.parse
DiffReadParent(p) ==
    /\ At(p, "diff", "readParent")
    /\ LET par == proc[p].commitData.parent
           file == proc[p].commitData.files[proc[p].i]
       IN  IF par \notin DOMAIN objects
           THEN IF impl = "part_000"
                THEN Set(p, NextFile([proc[p] EXCEPT !.out =
                         Say(p, Line("ParentMissing", file.path, "", ""))]))
                ELSE Throw(p, "TypeError")
           ELSE IF ~IsJSON(objects[par])
           THEN Throw(p, "SyntaxError")
           ELSE Set(p, [proc[p] EXCEPT !.parentData = JSONparse(objects[par]),
                                       !.pc = "parentFile"])
    /\ UNCHANGED <<impl, disk, clock, pre, made, nAdds, nPurged>>

\* (a find that never matches)
FindNothing(fs, path) == <<>>

\* parentCommitData.files.find((f) => f.path === filePath)
\* (the sequence is empty when find returns undefined, else holds the entry)
FindPath(fs, path) ==
    LET hits == SelectSeq(fs, LAMBDA f : f.path = path)
    IN  IF hits = <<>> THEN <<>> ELSE <<Head(hits)>>

\* getParentFileContent, then "Diff:" with diffLines(parentFileContent,
\* fileContent), or "New file in this commit"
DiffParentFile(p) ==
    /\ At(p, "diff", "parentFile")
    /\ LET file == proc[p].commitData.files[proc[p].i]
           parentFile == FindPath(proc[p].parentData.files, file.path)
       IN  IF parentFile = <<>>
           THEN Set(p, NextFile([proc[p] EXCEPT !.out =
                    Say(p, Line("NewFile", file.path, "", ""))]))
           ELSE LET parentFileContent == getFileContent(parentFile[1].hash) IN
                IF parentFileContent = Null
                THEN Throw(p, "ENOENT")
                ELSE Set(p, NextFile([proc[p] EXCEPT !.out =
                         Say(p, Line("Diff", file.path, proc[p].fileData,
                                     parentFileContent))]))
    /\ UNCHANGED <<impl, disk, clock, pre, made, nAdds, nPurged>>

\* ---------------------------------------------------------------- environment
\* an object file is removed from .gyst/objects behind the program's back
\* (the "purged/corrupt object" the history walk and the diff must survive)
Purge ==
    /\ \A p \in Procs : proc[p].cmd = "idle"
    /\ nPurged < MaxPurges
    /\ \E d \in DOMAIN objects :
        objects' = [e \in DOMAIN objects \ {d} |-> objects[e]]
    /\ nPurged' = nPurged + 1
    /\ pre' = [p \in Procs |-> [Snapshot EXCEPT !.objects = objects']]
    /\ UNCHANGED <<impl, repo, HEAD, index, clock, proc, made, nAdds>>

\* ---------------------------------------------------------------- next
StepInit(p) ==
    \/ Start(p) \/ Exit(p)
    \/ InitMkdir(p) \/ InitWriteHead(p) \/ InitWriteIndex(p) \/ AwaitInit(p)

StepAdd(p) ==
    \/ AddReadFile(p) \/ AddWriteObject(p) \/ AddReadIndex(p) \/ AddWriteIndex(p)

StepCommit(p) ==
    \/ CommitReadIndex(p) \/ CommitReadHead(p) \/ CommitWriteObject(p)
    \/ CommitWriteHead(p) \/ CommitWriteIndex(p)

StepLog(p) == LogAccess(p) \/ LogReadHead(p) \/ LogWalk(p)

StepDiff(p) ==
    \/ DiffAccess(p) \/ DiffReadCommit(p) \/ DiffFile(p) \/ DiffReadParent(p)
    \/ DiffParentFile(p)

Step(p) == StepInit(p) \/ StepAdd(p) \/ StepCommit(p) \/ StepLog(p) \/ StepDiff(p)

\* one invocation at a time (the caller guarantees exclusive access)
Next == Step(1)

Spec == Init /\ [][Next]_vars

\* one invocation at a time in a repository whose objects may be purged
NextPurge == Step(1) \/ Purge

SpecPurge == Init /\ [][NextPurge]_vars

\* the steps of init(), wherever it was started
InitSteps(p) ==
    \/ InitMkdir(p) \/ InitWriteHead(p) \/ InitWriteIndex(p) \/ AwaitInit(p)

\* one invocation at a time of init, add or commit, where the files added may
\* hold the serialisation of a commit
NextText ==
    \/ StartOf(1, {"init", "add", "commit"}) \/ Exit(1)
    \/ InitSteps(1)
    \/ StepAdd(1) \/ AddReadCommitText(1)
    \/ StepCommit(1)

SpecText == Init /\ [][NextText]_vars

\* add invocations that may run at the same time on one repository
NextAdds ==
    \E p \in Procs :
        \/ nAdds < MaxRace /\ StartOf(p, {"add"})
        \/ Exit(p)
        \/ InitSteps(p)
        \/ StepAdd(p)

SpecAdds == Init /\ [][NextAdds]_vars

\* commit invocations that may run at the same time on one repository, after
\* adds that ran alone and staged something
NextCommits ==
    \E p \in Procs :
        \/ /\ nAdds < MaxRace /\ \A q \in Procs : proc[q].cmd = "idle"
           /\ StartOf(p, {"add"})
        \/ /\ clock <= MaxRace /\ \A q \in Procs : proc[q].cmd # "add"
           /\ StartOf(p, {"commit"})
        \/ Exit(p)
        \/ InitSteps(p)
        \/ StepAdd(p)
        \/ StepCommit(p)

SpecCommits == Init /\ [][NextCommits]_vars

\* an add that may run at the same time as a commit on one repository: the
\* first adds and the commits start in an idle repository, and the last add
\* starts beside a commit
NextStage ==
    \E p \in Procs :
        \/ /\ nAdds < MaxRace /\ \A q \in Procs : proc[q].cmd = "idle"
           /\ StartOf(p, {"add"})
        \/ /\ nAdds = MaxRace /\ \E q \in Procs : proc[q].cmd = "commit"
           /\ StartOf(p, {"add"})
        \/ /\ clock <= MaxRace /\ nAdds >= MaxRace
           /\ \A q \in Procs : proc[q].cmd = "idle"
           /\ StartOf(p, {"commit"})
        \/ Exit(p)
        \/ InitSteps(p)
        \/ StepAdd(p)
        \/ StepCommit(p)

SpecStage == Init /\ [][NextStage]_vars

\* ---------------------------------------------------------------- properties
RECURSIVE Reverse(_)
Reverse(q) == IF q = <<>> THEN <<>> ELSE Append(Reverse(Tail(q)), Head(q))

IsPrefix(a, b) == Len(a) <= Len(b) /\ SubSeq(b, 1, Len(a)) = a

Tagged(out, tags) == SelectSeq(out, LAMBDA l : l.tag \in tags)
Keys(out) == [k \in 1..Len(out) |-> out[k].key]
PathsOf(fs) == [k \in 1..Len(fs) |-> fs[k].path]
IndexList(ix) == IF ix = NoFile THEN <<>> ELSE JSONparse(ix)
StoredCommit(d) == d \in DOMAIN objects /\ IsJSON(objects[d])
Finished(p, c) == proc[p].cmd = c /\ proc[p].status \in {"ok", "exit1", "threw"}

NoDuplicatePaths(ix) ==
    \A i \in 1..Len(ix) : \A j \in 1..Len(ix) : ix[i].path = ix[j].path => i = j

\* C1: the staging index never holds two entries with the same path, and
\* when an add has completed the index holds exactly one entry for the staged
\* path, carrying the hash of the content just staged.
C1_StagingDedupe ==
    /\ NoDuplicatePaths(IndexList(index))
    /\ \A p \in Procs :
         proc[p].cmd = "add" /\ proc[p].status = "ok" =>
            /\ Len(SelectSeq(IndexList(index), LAMBDA e : e.path = proc[p].arg)) = 1
            /\ [path |-> proc[p].arg, hash |-> proc[p].fileHash]
                  \in {IndexList(index)[k] : k \in 1..Len(IndexList(index))}

\* C2: when a commit of a non-empty index has succeeded, HEAD names a stored
\* commit object whose files are the entries the index held before the commit
\* (same order), whose message is the given message and whose parent is what
\* HEAD held before the commit (no parent when HEAD was empty), and the index
\* is the empty list.
C2_CommitPostState ==
    \A p \in Procs :
        /\ proc[p].cmd = "commit" /\ proc[p].status = "ok"
        /\ IndexList(pre[p].index) # <<>>
        => /\ HEAD = proc[p].commitHash
           /\ StoredCommit(HEAD)
           /\ JSONparse(objects[HEAD]).files = JSONparse(pre[p].index)
           /\ JSONparse(objects[HEAD]).message = proc[p].arg
           /\ IF Truthy(pre[p].HEAD)
              THEN JSONparse(objects[HEAD]).parent = pre[p].HEAD
              ELSE ~Truthy(JSONparse(objects[HEAD]).parent)
           /\ index # NoFile /\ JSONparse(index) = <<>>

W_C2_SecondCommitDone ==
    \E p \in Procs :
        /\ proc[p].cmd = "commit" /\ proc[p].status = "ok"
        /\ Len(IndexList(pre[p].index)) = 2
        /\ Truthy(pre[p].HEAD)
        /\ HEAD # pre[p].HEAD

\* C3: a commit invoked while the staging index is empty ends with
\* NoStagedChanges and has written nothing: the repository directory, HEAD,
\* the index and the object store are as the invocation found them.
C3_EmptyCommitWritesNothing ==
    \A p \in Procs :
        Finished(p, "commit") /\ IndexList(pre[p].index) = <<>> =>
            /\ proc[p].status = "exit1" /\ proc[p].err = "NoStagedChanges"
            /\ Snapshot = pre[p]

LogKeys(p) == Keys(Tagged(proc[p].out, {"Commit"}))

\* what log has printed is a prefix of the commits made, newest first
LogVisitsChain ==
    \A p \in Procs :
        proc[p].cmd = "log" =>
            /\ IsPrefix(LogKeys(p), Reverse(made))
            /\ proc[p].status # "threw"
            /\ proc[p].pc = "walk" =>
                  /\ Len(LogKeys(p)) < Len(made)
                  /\ proc[p].current = Reverse(made)[Len(LogKeys(p)) + 1]
            /\ proc[p].status = "ok" => LogKeys(p) = Reverse(made)

\* every step of the walk loop prints one more commit, so the loop runs at
\* most Len(made) times
LogAdvances ==
    \A p \in Procs :
        /\ proc[p].cmd = "log" /\ proc[p].pc = "walk"
        /\ [proc'[p] EXCEPT !.pcI = proc[p].pcI] # proc[p]
        =>
            /\ proc'[p].cmd = "log"
            /\ Len(Tagged(proc'[p].out, {"Commit"})) = Len(LogKeys(p)) + 1
            /\ Len(Tagged(proc'[p].out, {"Commit"})) <= Len(made)

\* C4: the history walk prints the commits that were made, newest first, each
\* once, and then terminates: what it has printed is always a prefix of the
\* reversed list of commits, its cursor is the next commit of that list, it
\* never fails, when it returns it has printed all of them, and every
\* iteration of its loop prints one more of the Len(made) commits.
C4_LogVisitsChain == []LogVisitsChain /\ [][LogAdvances]_vars

W_C4_LogOfTwoCommits ==
    \E p \in Procs :
        /\ proc[p].cmd = "log" /\ proc[p].status = "ok"
        /\ Len(made) = 2 /\ LogKeys(p) = <<made[2], made[1]>>

\* C5: the first commit made in a freshly initialized repository (HEAD empty)
\* is stored with parent = null.
C5_FirstCommitParentNull ==
    made # <<>> /\ StoredCommit(made[1]) =>
        JSONparse(objects[made[1]]).parent = Null

\* C6: diffing a commit that has no parent prints, for each file of the
\* commit, the file and "first commit, no parent to diff against", and
\* nothing else: no diff is computed and no "new file" is reported.
DiffsRoot(p) ==
    /\ proc[p].cmd = "diff"
    /\ StoredCommit(proc[p].arg)
    /\ ~Truthy(JSONparse(objects[proc[p].arg]).parent)

C6_RootDiffHasNoDiff ==
    \A p \in Procs :
        DiffsRoot(p) =>
            /\ proc[p].status \in {"running", "ok"}
            /\ Tagged(proc[p].out, {"Diff", "NewFile", "ParentMissing"}) = <<>>
            /\ proc[p].status = "ok" =>
                  Keys(Tagged(proc[p].out, {"FirstCommit"}))
                     = PathsOf(JSONparse(objects[proc[p].arg]).files)

W_C6_RootDiffOfTwoFiles ==
    \E p \in Procs :
        /\ DiffsRoot(p) /\ proc[p].status = "ok"
        /\ Len(Tagged(proc[p].out, {"FirstCommit"})) = 2

\* the scenario: add a.txt, add b.txt, commit (H1), modify a.txt, add a.txt,
\* commit (H2), then diff H2 has returned
Scenario(p) ==
    /\ proc[p].cmd = "diff" /\ proc[p].status = "ok"
    /\ Len(made) = 2 /\ proc[p].arg = made[2]
    /\ StoredCommit(made[1]) /\ StoredCommit(made[2])
    /\ PathsOf(JSONparse(objects[made[1]]).files) = <<"a.txt", "b.txt">>
    /\ nAdds = 3
    /\ \E e \in {JSONparse(objects[made[2]]).files[k] :
                    k \in 1..Len(JSONparse(objects[made[2]]).files)} :
          e.path = "a.txt" /\ e.hash # JSONparse(objects[made[1]]).files[1].hash

\* C7 as stated: in the scenario diff H2 reports b.txt with a diff against
\* its version in H1 that is an Equal run only, and not as a new file.
C7_UnchangedFileDiffedAsEqual ==
    \A p \in Procs :
        Scenario(p) =>
            /\ \E k \in 1..Len(proc[p].out) :
                  /\ proc[p].out[k].tag = "Diff" /\ proc[p].out[k].key = "b.txt"
                  /\ proc[p].out[k].old = proc[p].out[k].text
            /\ \A k \in 1..Len(proc[p].out) :
                  proc[p].out[k].key = "b.txt" => proc[p].out[k].tag # "NewFile"

\* C7 amended: in the scenario diff H2 reports a.txt only, diffed against its
\* version in H1; b.txt is not among the files of H2 and nothing is reported
\* for it.
C7_UnchangedFileNotReported ==
    \A p \in Procs :
        Scenario(p) =>
            /\ PathsOf(JSONparse(objects[made[2]]).files) = <<"a.txt">>
            /\ \A k \in 1..Len(proc[p].out) : proc[p].out[k].key # "b.txt"
            /\ Keys(Tagged(proc[p].out, {"File"})) = <<"a.txt">>
            /\ \E k \in 1..Len(proc[p].out) :
                  /\ proc[p].out[k].tag = "Diff" /\ proc[p].out[k].key = "a.txt"
                  /\ hashObject(Raw(proc[p].out[k].old))
                        = JSONparse(objects[made[1]]).files[1].hash
                  /\ proc[p].out[k].old # proc[p].out[k].text

W_C7_ScenarioDiffed == \E p \in Procs : Scenario(p)

\* C8: once the history walk has printed a commit, a parent whose object is
\* missing makes it stop and return; it does not fail.
C8_WalkSurvivesMissingParent ==
    \A p \in Procs :
        Finished(p, "log") /\ LogKeys(p) # <<>> => proc[p].status = "ok"

\* C9: when the parent named by the diffed commit is absent from the store,
\* the diff does not abort: it returns having reported "(parent commit object
\* missing)" for every file of the commit.
DiffsOrphan(p) ==
    /\ proc[p].cmd = "diff"
    /\ StoredCommit(proc[p].arg)
    /\ Truthy(JSONparse(objects[proc[p].arg]).parent)
    /\ JSONparse(objects[proc[p].arg]).parent \notin DOMAIN objects

C9_DiffSurvivesMissingParent ==
    \A p \in Procs :
        DiffsOrphan(p) /\ proc[p].status # "running" =>
            /\ proc[p].status = "ok"
            /\ Keys(Tagged(proc[p].out, {"ParentMissing"}))
                  = PathsOf(JSONparse(objects[proc[p].arg]).files)

\* C10: a read of a digest that has no slot in the object store never yields
\* content: every file content the diff prints was read from an existing slot.
C10_MissingObjectIsError ==
    \A p \in Procs :
        proc[p].cmd = "diff" /\ proc[p].pc \in {"file", "readParent", "parentFile", "done"} =>
            \A k \in 1..Len(Tagged(proc[p].out, {"File"})) :
                proc[p].commitData.files[k].hash \in DOMAIN objects

\* C11 as stated: add, commit, log and diff invoked where no repository
\* exists end with RepoNotInitialized and create nothing.
C11_NoRepositoryNoOperation ==
    \A p \in Procs :
        proc[p].cmd \in {"add", "commit", "log", "diff"} /\ ~pre[p].repo =>
            /\ Snapshot = pre[p]
            /\ proc[p].status # "running" =>
                  proc[p].status = "exit1" /\ proc[p].err = "RepoNotInitialized"

\* C11 amended: where no repository exists, log and diff of part_000 end with
\* RepoNotInitialized and create nothing, while add and commit of part_000
\* have created the repository (objects/, HEAD, index) whenever they end, and
\* a Gyst.js command that has returned with init() finished has created it.
C11_OnlyLogAndDiffNeedRepository ==
    \A p \in Procs :
        ~pre[p].repo =>
            /\ impl = "part_000" /\ proc[p].cmd \in {"log", "diff"} =>
                  /\ Snapshot = pre[p]
                  /\ proc[p].status # "running" =>
                        proc[p].status = "exit1" /\ proc[p].err = "RepoNotInitialized"
            /\ impl = "part_000" /\ (Finished(p, "add") \/ Finished(p, "commit")) =>
                  repo /\ HEAD # ENOENT /\ index # NoFile
            /\ impl = "Gyst.js" /\ proc[p].status = "ok" /\ proc[p].pcI = "done" =>
                  repo /\ HEAD # ENOENT /\ index # NoFile

W_C11_LogWithoutRepository ==
    \E p \in Procs :
        /\ impl = "part_000" /\ Finished(p, "log") /\ ~pre[p].repo
        /\ proc[p].err = "RepoNotInitialized" /\ ~repo

\* C12: log and diff are read-only: while and after either of them runs, the
\* repository (its existence, HEAD, the index, the object store) is as the
\* invocation found it.
C12_LogAndDiffReadOnly ==
    \A p \in Procs :
        proc[p].cmd \in {"log", "diff"} => Snapshot = pre[p]

\* C13: init on an initialized repository (HEAD exists) changes nothing, and
\* init on an absent repository leaves objects/ created and empty, HEAD empty
\* and the index holding the empty list.
C13_InitIdempotent ==
    \A p \in Procs :
        proc[p].cmd = "init" =>
            /\ pre[p].HEAD # ENOENT => Snapshot = pre[p]
            /\ ~pre[p].repo /\ proc[p].status = "ok" =>
                  /\ repo /\ HEAD = ""
                  /\ index # NoFile /\ JSONparse(index) = <<>>
                  /\ objects = pre[p].objects

W_C13_InitOnCommittedAndStaged ==
    \E p \in Procs :
        /\ proc[p].cmd = "init" /\ proc[p].status = "ok"
        /\ Truthy(pre[p].HEAD) /\ IndexList(pre[p].index) # <<>>

\* a commit whose write of HEAD has happened
WroteHead(p) ==
    /\ proc[p].cmd = "commit" /\ proc[p].status \in {"running", "ok"}
    /\ proc[p].pc \in {"writeIndex", "done"}

\* an invocation that is no commit, or a commit that failed
NoSuccessfulCommit(p) ==
    \/ proc[p].cmd \in {"init", "add", "log", "diff"}
    \/ proc[p].cmd = "commit" /\ proc[p].status \in {"exit1", "threw"}

\* init() may create a missing HEAD as the empty file; nothing else
HeadKept(p) ==
    \/ HEAD = pre[p].HEAD
    \/ pre[p].HEAD = ENOENT /\ HEAD = ""

\* C14 as stated: HEAD is written only by a successful commit and as its
\* final step: once a commit has written HEAD, the commit object is stored and
\* the index is already cleared; no other invocation changes an existing HEAD.
C14_HeadWrittenLast ==
    \A p \in Procs :
        /\ WroteHead(p) =>
              /\ HEAD = proc[p].commitHash
              /\ StoredCommit(proc[p].commitHash)
              /\ IndexList(index) = <<>>
        /\ NoSuccessfulCommit(p) => HeadKept(p)

\* every step that changes HEAD is the creation of the missing file by init()
\* or the HEAD write of a commit whose object is stored, and that step leaves
\* the index as it is
HeadChangesByCommit ==
    HEAD' # HEAD =>
        \/ HEAD = ENOENT /\ HEAD' = "" /\ \E p \in Procs : proc[p].pcI = "writeHEAD"
        \/ \E p \in Procs :
              /\ At(p, "commit", "writeHEAD")
              /\ HEAD' = proc[p].commitHash
              /\ StoredCommit(proc[p].commitHash)
              /\ JSONparse(objects[proc[p].commitHash]) = proc[p].commitData
              /\ index' = index /\ objects' = objects

\* a commit between its HEAD write and its end still sees the staged entries
\* in the index; when it has ended the index is cleared
HeadBeforeIndex ==
    \A p \in Procs :
        /\ WroteHead(p) =>
              /\ HEAD = proc[p].commitHash
              /\ StoredCommit(proc[p].commitHash)
              /\ proc[p].pc = "writeIndex" => IndexList(index) = proc[p].idx
              /\ proc[p].pc = "done" => IndexList(index) = <<>>
        /\ NoSuccessfulCommit(p) => HeadKept(p)

\* C14 amended: an existing HEAD is written only by a commit, as the second
\* of its three writes: the commit object is stored before, the index is
\* cleared after, and the commit then ends successfully; init() creates a
\* missing HEAD empty, and no add, init, log, diff or failed commit changes
\* an existing HEAD.
C14_HeadWrittenBetweenObjectAndIndex ==
    []HeadBeforeIndex /\ [][HeadChangesByCommit]_vars

W_C14_HeadAdvancedIndexStillStaged ==
    \E p \in Procs :
        /\ At(p, "commit", "writeIndex") /\ Len(made) = 2
        /\ HEAD = proc[p].commitHash /\ IndexList(index) # <<>>

\* C15: every commit object is named by the hash of the bytes stored in its
\* slot, and so is the digest written to HEAD.
C15_CommitNamedByStoredBytes ==
    /\ \A d \in DOMAIN objects :
          IsJSON(objects[d]) => d = hashObject(objects[d])
    /\ Truthy(HEAD) /\ HEAD \in DOMAIN objects => HEAD = hashObject(objects[HEAD])

\* a blob slot holds the text add stored under its hash
BlobReadsBack ==
    /\ \A d \in DOMAIN objects :
          objects[d].fmt = "raw" => d = hashObject(objects[d])
    /\ \A p \in Procs :
          proc[p].cmd = "add" /\ proc[p].pc \in {"readIndex", "writeIndex", "done"}
          /\ proc[p].status \in {"running", "ok"} =>
              /\ proc[p].fileHash \in DOMAIN objects
              /\ Text(objects[proc[p].fileHash]) = proc[p].fileData

\* no step removes a slot or changes the bytes of an existing slot
ObjectsKept ==
    \A d \in DOMAIN objects :
        d \in DOMAIN objects' /\ Text(objects'[d]) = Text(objects[d])

\* C16: stored objects are write-once and retained: what add stored under
\* hash(c) reads back as c, and no operation deletes a slot or changes the
\* content of an existing slot.
C16_ObjectsWriteOnce ==
    []BlobReadsBack /\ [][ObjectsKept]_vars

\* the commit record stored under digest d
CommitAt(d) == JSONparse(objects[d])

\* C17: in sequential runs the commit chain is referentially intact: HEAD is
\* empty (or not yet created) or names a stored commit, and every stored
\* commit's parent is null or names a commit that was stored before it.
C17_ChainIntact ==
    /\ HEAD \in {ENOENT, ""} \/ StoredCommit(HEAD)
    /\ \A d \in DOMAIN objects :
          IsJSON(objects[d]) =>
              \/ CommitAt(d).parent = Null
              \/ /\ StoredCommit(CommitAt(d).parent)
                 /\ CommitAt(CommitAt(d).parent).timeStamp < CommitAt(d).timeStamp

\* an add that has completed successfully
AddDone(p) == proc[p].cmd = "add" /\ proc[p].status = "ok"

Entry(p) == [path |-> proc[p].arg, hash |-> proc[p].fileHash]
Range(q) == {q[k] : k \in 1..Len(q)}

\* the index is the one invocation w wrote: the entries w had read (but for
\* an earlier entry of w's own path, which part_000 removes) and w's entry last
WrittenBy(w) ==
    LET ix == IndexList(index) IN
        /\ ix # <<>> /\ ix[Len(ix)] = Entry(w)
        /\ Range(SubSeq(ix, 1, Len(ix) - 1)) \subseteq Range(proc[w].idx)
        /\ \A e \in Range(proc[w].idx) : e.path # proc[w].arg => e \in Range(ix)

\* C18: two concurrent adds can lose an update. When both have completed
\* successfully the index is what the later writer wrote from the list it had
\* read, so the earlier writer's entry is in it only if the later writer read
\* the index after the earlier one wrote it.
C18_LastIndexWriterWins ==
    \A p, q \in Procs :
        p # q /\ AddDone(p) /\ AddDone(q) => WrittenBy(p) \/ WrittenBy(q)

\* both adds have completed successfully and the index holds the entry of
\* one of them only
W_C18_StagedEntryLost ==
    \E p, q \in Procs :
        /\ p # q /\ AddDone(p) /\ AddDone(q) /\ proc[p].arg # proc[q].arg
        /\ Entry(q) \in Range(IndexList(index))
        /\ proc[p].arg \notin Range(PathsOf(IndexList(index)))

\* a commit that has reported success
CommitDone(p) == proc[p].cmd = "commit" /\ proc[p].status = "ok"

\* the digests the history walk visits from d in at most n hops
RECURSIVE Walk(_, _)
Walk(d, n) ==
    IF n = 0 \/ ~Truthy(d) \/ ~StoredCommit(d) THEN {}
    ELSE {d} \cup Walk(CommitAt(d).parent, n - 1)

History == Walk(HEAD, Cardinality(DOMAIN objects))

\* C19: two concurrent commits can lose a HEAD advance. When both have
\* reported success both commit objects are stored and HEAD names the commit
\* of the later HEAD writer; the other commit is in the history of HEAD if
\* the later writer had read it as its parent, and is not if both had read
\* the same parent.
C19_LaterHeadWriterWins ==
    \A p, q \in Procs :
        p # q /\ CommitDone(p) /\ CommitDone(q) =>
            /\ StoredCommit(proc[p].commitHash) /\ StoredCommit(proc[q].commitHash)
            /\ HEAD = made[Len(made)]
            /\ HEAD = proc[q].commitHash =>
                  /\ proc[q].commitData.parent = proc[p].commitHash =>
                        proc[p].commitHash \in History
                  /\ proc[q].commitData.parent = proc[p].commitData.parent =>
                        proc[p].commitHash \notin History
            /\ HEAD \in {proc[p].commitHash, proc[q].commitHash}

\* both commits read the same HEAD and reported success; HEAD names one of
\* them and the walk from HEAD does not visit the other
W_C19_HeadAdvanceLost ==
    \E p, q \in Procs :
        /\ p # q /\ CommitDone(p) /\ CommitDone(q)
        /\ proc[p].commitData.parent = proc[q].commitData.parent
        /\ StoredCommit(proc[p].commitHash) /\ StoredCommit(proc[q].commitHash)
        /\ HEAD = proc[q].commitHash
        /\ proc[p].commitHash \notin History

\* the label at which a command first touches the repository
FirstAccess(c) ==
    CASE c = "add" -> "writeObject"
      [] c = "commit" -> "readIndex"
      [] c = "log" -> IF impl = "part_000" THEN "access" ELSE "readHEAD"
      [] c = "diff" -> IF impl = "part_000" THEN "access" ELSE "readCommit"

\* the labels of a command before that access has happened
BeforeAccess(c) ==
    IF c = "add" THEN {"awaitInit", "readFile", "writeObject"}
    ELSE {"awaitInit", FirstAccess(c)}

\* the command of invocation p has made its first read or write of the
\* repository (it may have failed in it)
Accessed(p) ==
    /\ proc[p].cmd \in {"add", "commit", "log", "diff"}
    /\ \/ proc[p].pc \notin BeforeAccess(proc[p].cmd)
       \/ /\ proc[p].pc = FirstAccess(proc[p].cmd)
          /\ proc[p].status \in {"threw", "exit1"}

\* C20: within one invocation the initialization started for a command has
\* completed, and HEAD and index exist, before the command's own first read
\* or write of the index, HEAD or object store.
C20_InitBeforeFirstAccess ==
    \A p \in Procs :
        Accessed(p) /\ StartsInit(proc[p].cmd) =>
            /\ proc[p].pcI = "done"
            /\ HEAD # ENOENT /\ index # NoFile

\* entry e is among the files of some stored commit
Committed(e) ==
    \E d \in DOMAIN objects :
        IsJSON(objects[d]) /\ e \in Range(CommitAt(d).files)

\* C21 as stated: whenever an add has completed successfully its entry is
\* still in the index or among the files of a stored commit, also when the
\* add ran concurrently with a commit.
C21_StagedEntryKeptOrCommitted ==
    \A p \in Procs :
        AddDone(p) => Entry(p) \in Range(IndexList(index)) \/ Committed(Entry(p))

\* C21 amended: where an add and a commit have both completed, the add's
\* entry is in the index (the add wrote after the commit cleared it), or the
\* index is empty and the entry is committed if the commit had read it; an
\* entry written between the commit's read and its clearing of the index is
\* in neither.
C21_StagedEntryKeptUnlessCleared ==
    \A p, q \in Procs :
        AddDone(p) /\ CommitDone(q) =>
            \/ Entry(p) \in Range(IndexList(index))
            \/ /\ IndexList(index) = <<>>
               /\ Entry(p) \in Range(proc[q].idx) =>
                     /\ StoredCommit(proc[q].commitHash)
                     /\ Entry(p) \in Range(CommitAt(proc[q].commitHash).files)

\* an add and a commit have both completed, the commit had read the index
\* before the add wrote it, and the add's entry is neither staged nor committed
W_C21_EntryClearedUncommitted ==
    \E p, q \in Procs :
        /\ AddDone(p) /\ CommitDone(q)
        /\ Entry(p) \notin Range(proc[q].idx)
        /\ IndexList(index) = <<>>
        /\ ~Committed(Entry(p))

====
